---- MODULE Spec2Model ----
(***************************************************************************)
(* Model of pytorch3d/renderer/mesh/renderer.py: MeshRenderer and          *)
(* MeshRendererWithFragments.                                              *)
(*                                                                         *)
(* One pipeline object owns a rasterizer and a shader.  Callers invoke     *)
(* forward (MeshRenderer), forward of MeshRendererWithFragments,           *)
(* get_view_to_texture_map and to, possibly concurrently.  Every           *)
(* collaborator invocation is one step of the calling method; the method's *)
(* locals (meshes_world, kwargs, fragments) live in per-call variables.    *)
(*                                                                         *)
(* Numbers: barycentric weights and interpolated values are exact          *)
(* rationals, a numerator (or a tuple of numerators) over a positive       *)
(* denominator "den".  Python indices are kept 0-based; At0 reads a        *)
(* sequence at a 0-based index.                                            *)
(***************************************************************************)
EXTENDS Integers, Sequences, FiniteSets, TLC

\* Number of call slots: how many pipeline calls can be in flight at once.
NumCalls == 2

Calls == 1..NumCalls

Devices == {"cpu", "cuda:0"}

\* rasterizer.raster_settings.clip_barycentric_coords as the call's options
\* carry it: never set, set to True, set to False.
ClipFlags == {"unset", "on", "off"}

MeshIds == {"A", "B"}

RasterizerError == "RasterizerError"
ShaderError == "ShaderError"
IndexError == "IndexError"
ConfigurationError == "ConfigurationError"

At0(s, i) == s[i + 1]

Min(a, b) == IF a <= b THEN a ELSE b

RECURSIVE Cat(_)
\* torch.cat over a list of per-mesh sequences.
Cat(ss) == IF ss = << >> THEN << >> ELSE Head(ss) \o Cat(Tail(ss))

RECURSIVE SumLen(_)
SumLen(ss) == IF ss = << >> THEN 0 ELSE Len(Head(ss)) + SumLen(Tail(ss))

(***************************************************************************)
(* The mesh batches the callers pass.  Batch A holds two meshes with 3 and *)
(* 5 faces whose UV indices both start at 0; batch B holds one mesh with   *)
(* one face.                                                               *)
(***************************************************************************)
verts_uvs_list(m) ==
    CASE m = "A" -> << << <<0, 0>>, <<10, 0>>, <<0, 10>>, <<10, 10>> >>,
                       << <<20, 20>>, <<30, 20>>, <<20, 30>>, <<30, 30>>, <<25, 40>> >> >>
      [] m = "B" -> << << <<0, 0>>, <<1, 0>>, <<0, 1>> >> >>

faces_uvs_list(m) ==
    CASE m = "A" -> << << <<0, 1, 2>>, <<1, 3, 2>>, <<0, 3, 1>> >>,
                       << <<0, 1, 2>>, <<1, 3, 2>>, <<2, 3, 4>>, <<0, 4, 1>>, <<4, 3, 0>> >> >>
      [] m = "B" -> << << <<0, 1, 2>> >> >>

\* meshes_world.textures
textures(m) == [verts_uvs_list |-> verts_uvs_list(m), faces_uvs_list |-> faces_uvs_list(m)]

(***************************************************************************)
(* get_view_to_texture_map, lines 65-68: the packed per-face UV attribute. *)
(***************************************************************************)
\* i[j] for one (verts_uvs, faces_uvs) pair: advanced indexing of the mesh's
\* own UV coordinates by its faces' UV indices.
IndexSelect(i, j) == [f \in 1..Len(j) |-> [k \in 1..3 |-> At0(i, j[f][k])]]

\* A packing that concatenates the whole batch first and indexes afterwards:
\* every index is resolved against the batch-wide UV sequence.
packing_list_concat_first(tex) ==
    [n \in 1..Min(Len(tex.verts_uvs_list), Len(tex.faces_uvs_list)) |->
        IndexSelect(Cat(tex.verts_uvs_list), tex.faces_uvs_list[n])]

\* [i[j] for i, j in zip(tex.verts_uvs_list(), tex.faces_uvs_list())]
packing_list(tex) ==
    [n \in 1..Min(Len(tex.verts_uvs_list), Len(tex.faces_uvs_list)) |->
        IndexSelect(tex.verts_uvs_list[n], tex.faces_uvs_list[n])]

\* faces_verts_uvs = torch.cat(packing_list)
faces_verts_uvs(tex) == Cat(packing_list(tex))

(***************************************************************************)
(* The collaborators.  The rasterizer and the shader are pytorch3d         *)
(* components outside this file; the pipeline only calls them.             *)
(***************************************************************************)
\* What rasterization of batch m yields before any clipping, one entry per
\* pixel slot: pix_to_face is an index into the packed faces of the batch or
\* -1 for "no face"; a barycentric triple is w[1..3] / den.  Batch A has
\* slots whose weights leave [0, 1] (blur radius > 0), among them
\* (1.2, -0.3, 0.1); batch B has such a slot too, and a slot whose face
\* index (1) is outside its one-face batch.
RawFragments(m) ==
    CASE m = "A" ->
           [pix_to_face |-> <<0, 3, -1, 7, 5, 2>>,
            bary_coords |-> << [w |-> <<10, 0, 0>>, den |-> 10],
                               [w |-> <<12, -3, 1>>, den |-> 10],
                               [w |-> <<-10, -10, -10>>, den |-> 10],
                               [w |-> <<3, 3, 4>>, den |-> 10],
                               [w |-> <<-5, -5, 20>>, den |-> 10],
                               [w |-> <<12, 5, -7>>, den |-> 10] >>,
            zbuf |-> <<5, 6, -1, 7, 8, 9>>]
      [] m = "B" ->
           [pix_to_face |-> <<0, -1, 1>>,
            bary_coords |-> << [w |-> <<11, -2, 1>>, den |-> 10],
                               [w |-> <<-10, -10, -10>>, den |-> 10],
                               [w |-> <<5, 5, 0>>, den |-> 10] >>,
            zbuf |-> <<1, -1, 2>>]

Clamp(x, lo, hi) == IF x < lo THEN lo ELSE IF x > hi THEN hi ELSE x

\* Clamp every weight into [0, 1] and renormalize the triple to sum to 1:
\* clamp(w_k/den) / sum = clamp(w_k) / (sum of the clamped numerators).
ClipBary(b) ==
    LET c == [k \in 1..3 |-> Clamp(b.w[k], 0, b.den)]
        s == c[1] + c[2] + c[3]
    IN  IF s = 0 THEN b ELSE [w |-> c, den |-> s]

\* The FragmentBuffer value the rasterizer computes for (meshes, options):
\* with clip_barycentric_coords enabled the weights of covered slots are
\* clipped by the rasterizer; otherwise (disabled or never set) they are raw.
Rasterize(m, kw) ==
    LET raw == RawFragments(m)
    IN  [raw EXCEPT !.bary_coords =
            [p \in 1..Len(raw.bary_coords) |->
                IF kw = "on" /\ raw.pix_to_face[p] >= 0
                THEN ClipBary(raw.bary_coords[p])
                ELSE raw.bary_coords[p]]]

NoFragmentsValue == [pix_to_face |-> << >>, bary_coords |-> << >>, zbuf |-> << >>]

\* A fragments object: the identity of the object and its (immutable) value.
NoFragments == [id |-> <<0, 0>>, val |-> NoFragmentsValue]

\* The image batch a (deterministic) shader computes: a term over its inputs.
Shade(fragval, m, kw) == [shaded_from |-> fragval, meshes |-> m, kwargs |-> kw]

\* w0*A0 + w1*A1 + w2*A2 for one pixel slot and the face's three UV values.
WeightedSum(b, face) ==
    [num |-> [k \in 1..2 |-> b.w[1] * face[1][k] + b.w[2] * face[2][k] + b.w[3] * face[3][k]],
     den |-> b.den]

ZeroVector == [num |-> <<0, 0>>, den |-> 1]

\* pytorch3d.ops.interpolate_face_attributes(pix_to_face, barycentric_coords,
\* face_attributes): fails on a face index outside face_attributes, fills
\* "no face" slots with zero, takes the weights as they are given.
interpolate_face_attributes(pix_to_face, bary_coords, face_attributes) ==
    IF \E p \in 1..Len(pix_to_face) : pix_to_face[p] >= Len(face_attributes)
    THEN [outcome |-> "raise", error |-> IndexError]
    ELSE [outcome |-> "return",
          value |-> [p \in 1..Len(pix_to_face) |->
                        IF pix_to_face[p] < 0 THEN ZeroVector
                        ELSE WeightedSum(bary_coords[p], At0(face_attributes, pix_to_face[p]))]]

(***************************************************************************)
(* State.                                                                  *)
(***************************************************************************)
VARIABLES
    pc,                 \* per call: "idle", the next line to run, "done" or "raised"
    method,             \* per call: the method being run
    meshes_world,       \* per call: the argument meshes_world
    kwargs,             \* per call: the argument **kwargs
    device,             \* per call: the argument device of to
    fragments,          \* per call: the local variable fragments
    result,             \* per call: what the call returned or raised
    trace,              \* per call: the collaborator invocations it made, in order
    rasterizer_device,  \* the device the rasterizer is on
    shader_device,      \* the device the shader is on
    self_attrs,         \* per pipeline object: its attributes
    retargeted,         \* the device of the last to call if it returned, else "-"
    slots,              \* the call slots the callers use
    inputs              \* the (meshes_world, kwargs) arguments the callers pass

vars == <<pc, method, meshes_world, kwargs, device, fragments, result, trace,
          rasterizer_device, shader_device, self_attrs, retargeted, slots, inputs>>

\* The callers' side of a behaviour: fixed from the start.
env == <<slots, inputs>>

Pipelines == {"MeshRenderer", "MeshRendererWithFragments"}

\* __init__ of either class: self.rasterizer = rasterizer; self.shader = shader
init_attrs == [rasterizer |-> "rasterizer", shader |-> "shader"]

\* The outcome of a call: none yet, a returned value or a raised error.
NoResult == [kind |-> "none"]

return(value) == [kind |-> "return", value |-> value]

\* The outcome of one collaborator invocation, added to the record of its
\* callee, its arguments and the device the callee was on.
returned(e, value) == [x \in DOMAIN e \cup {"outcome", "value"} |->
                         IF x = "outcome" THEN "return" ELSE IF x = "value" THEN value ELSE e[x]]

raised(e, error) == [x \in DOMAIN e \cup {"outcome", "error"} |->
                       IF x = "outcome" THEN "raise" ELSE IF x = "error" THEN error ELSE e[x]]

Start(callers, args) ==
    /\ slots = callers
    /\ inputs = args
    /\ pc = [c \in Calls |-> "idle"]
    /\ method = [c \in Calls |-> "-"]
    /\ meshes_world = [c \in Calls |-> "-"]
    /\ kwargs = [c \in Calls |-> "-"]
    /\ device = [c \in Calls |-> "-"]
    /\ fragments = [c \in Calls |-> NoFragments]
    /\ result = [c \in Calls |-> NoResult]
    /\ trace = [c \in Calls |-> << >>]
    /\ rasterizer_device \in Devices
    /\ shader_device \in Devices
    /\ self_attrs = [p \in Pipelines |-> init_attrs]
    /\ retargeted = "-"

\* Concurrent callers on every slot, passing batch A with clipping enabled or
\* batch B with the flag never set.
Init == Start(Calls, {<<"A", "on">>, <<"B", "unset">>})

\* One caller issuing one call after the other, passing any batch with any
\* setting of the flag.
InitSeq == Start({1}, MeshIds \X ClipFlags)

InFlight(c) == pc[c] \notin {"idle", "done", "raised"}

ToMethods == {"MeshRenderer.to", "MeshRendererWithFragments.to"}

\* Callers do not race a to call against another call: a to call is issued
\* when no other call is pending, and nothing is issued until its outcome
\* has been taken.
NoRetargetPending == \A d \in Calls : method[d] \notin ToMethods

NothingPending == \A d \in Calls : pc[d] = "idle"

(***************************************************************************)
(* The lines the three rendering methods share.                            *)
(***************************************************************************)
\* An exception raised by a callee is not caught: it leaves the method as
\* the call's outcome.
raise_wrapped(error) == [kind |-> "raise", error |-> "RuntimeError"]

raise(error) == [kind |-> "raise", error |-> error]

\* The fragments object of the other in-flight calls is overwritten too, as
\* if it were kept on the pipeline object.
store_shared(c, obj) ==
    [d \in Calls |-> IF d = c \/ InFlight(d) THEN obj ELSE fragments[d]]

\* fragments = ...: binds the local variable of this call.
store_local(c, obj) == [fragments EXCEPT ![c] = obj]

\* What self.rasterizer(meshes_world, **kwargs) can do when call c makes it
\* as its n-th invocation: return a fresh fragments object or raise.
rasterizer_outcomes(c, n, m, kw) ==
    LET e == [callee |-> "rasterizer", device |-> rasterizer_device,
              meshes |-> m, kwargs |-> kw]
    IN  { returned(e, [id |-> <<c, n>>, val |-> Rasterize(m, kw)]),
          raised(e, RasterizerError) }

\* What self.shader(fragments, meshes_world, **kwargs) can do.
shader_outcomes(frag, m, kw) ==
    LET e == [callee |-> "shader", device |-> shader_device,
              fragments |-> frag, meshes |-> m, kwargs |-> kw]
    IN  { returned(e, Shade(frag.val, m, kw)), raised(e, ShaderError) }

\* The call drops **kwargs: the rasterizer sees no options.
rasterizer_args_no_kwargs(m, kw) == <<m, "unset">>

\* The arguments of self.rasterizer(meshes_world, **kwargs).
rasterizer_args(m, kw) == <<m, kw>>

\* A caller invokes method meth(m, **kw); its first line runs:
\*     fragments = self.rasterizer(meshes_world, **kwargs)
rasterize_line(c, meth, next) ==
    /\ c \in slots
    /\ pc[c] = "idle"
    /\ NoRetargetPending
    /\ \E a \in inputs :
         LET m == a[1]
             kw == a[2]
         IN
         \E e \in rasterizer_outcomes(c, 1, rasterizer_args(m, kw)[1], rasterizer_args(m, kw)[2]) :
            /\ method' = [method EXCEPT ![c] = meth]
            /\ meshes_world' = [meshes_world EXCEPT ![c] = m]
            /\ kwargs' = [kwargs EXCEPT ![c] = kw]
            /\ trace' = [trace EXCEPT ![c] = <<e>>]
            /\ IF e.outcome = "return"
               THEN /\ fragments' = store_local(c, e.value)
                    /\ pc' = [pc EXCEPT ![c] = next]
                    /\ UNCHANGED result
               ELSE /\ result' = [result EXCEPT ![c] = raise(e.error)]
                    /\ pc' = [pc EXCEPT ![c] = "raised"]
                    /\ UNCHANGED fragments
    /\ UNCHANGED <<device, rasterizer_device, shader_device, self_attrs, retargeted, env>>

\* MeshRenderer.forward: return images
forward_return(images, frag) == return(images)

\* The second value is a copy of the fragments, not the object itself.
wf_forward_return_copy(images, frag) == return(<<images, [frag EXCEPT !.id = <<0, 0>>]>>)

\* MeshRendererWithFragments.forward: return images, fragments
wf_forward_return(images, frag) == return(<<images, frag>>)

\* The return statement of the forward method of the class of meth.
forward_return_of(meth, images, frag) ==
    IF meth = "MeshRendererWithFragments.forward"
    THEN wf_forward_return(images, frag)
    ELSE forward_return(images, frag)

\* images = self.shader(fragments, meshes_world, **kwargs), then the return
\* statement of the method.
shade_line(c, at, kw) ==
    /\ pc[c] = at
    /\ \E e \in shader_outcomes(fragments[c], meshes_world[c], kw) :
         /\ trace' = [trace EXCEPT ![c] = Append(@, e)]
         /\ IF e.outcome = "return"
            THEN /\ result' = [result EXCEPT ![c] = forward_return_of(method[c], e.value, fragments[c])]
                 /\ pc' = [pc EXCEPT ![c] = "done"]
            ELSE /\ result' = [result EXCEPT ![c] = raise(e.error)]
                 /\ pc' = [pc EXCEPT ![c] = "raised"]
    /\ UNCHANGED <<method, meshes_world, kwargs, device, fragments,
                   rasterizer_device, shader_device, self_attrs, retargeted, env>>

(***************************************************************************)
(* MeshRenderer.forward, lines 55-58.                                      *)
(***************************************************************************)
forward_rasterize(c) == rasterize_line(c, "MeshRenderer.forward", "forward_shade")

\* The shader call without **kwargs.
forward_shade_no_kwargs(c) == shade_line(c, "forward_shade", "unset")

forward_shade(c) == shade_line(c, "forward_shade", kwargs[c])

(***************************************************************************)
(* MeshRendererWithFragments.forward, lines 115-118.                       *)
(***************************************************************************)
wf_forward_rasterize(c) ==
    rasterize_line(c, "MeshRendererWithFragments.forward", "wf_forward_shade")

\* The shader call without **kwargs.
wf_forward_shade_no_kwargs(c) ==
    shade_line(c, "wf_forward_shade", "unset")

wf_forward_shade(c) == shade_line(c, "wf_forward_shade", kwargs[c])

(***************************************************************************)
(* MeshRenderer.get_view_to_texture_map, lines 61-74.                      *)
(***************************************************************************)
get_view_to_texture_map_rasterize(c) ==
    rasterize_line(c, "MeshRenderer.get_view_to_texture_map", "interpolate")

\* Face indices shifted by one, as if pix_to_face were 1-based.
interp_args_off_by_one(frag, attrs) ==
    [pix_to_face |-> [p \in 1..Len(frag.val.pix_to_face) |->
                        IF frag.val.pix_to_face[p] < 0 THEN -1
                        ELSE frag.val.pix_to_face[p] - 1],
     bary_coords |-> frag.val.bary_coords,
     face_attributes |-> attrs]

\* The weights of covered slots are clipped here, whatever the flag says.
interp_args_clipped(frag, attrs) ==
    [pix_to_face |-> frag.val.pix_to_face,
     bary_coords |-> [p \in 1..Len(frag.val.bary_coords) |->
                        IF frag.val.pix_to_face[p] >= 0
                        THEN ClipBary(frag.val.bary_coords[p])
                        ELSE frag.val.bary_coords[p]],
     face_attributes |-> attrs]

\* The arguments of the interpolate_face_attributes call, lines 70-72.
interp_args(frag, attrs) ==
    [pix_to_face |-> frag.val.pix_to_face,
     bary_coords |-> frag.val.bary_coords,
     face_attributes |-> attrs]

\* return pixel_uvs
get_view_to_texture_map_return(pixel_uvs) == return(pixel_uvs)

\* Lines 62-74: tex = meshes_world.textures (tex_map is not used), the packed
\* per-face UVs, the interpolation, the return.
get_view_to_texture_map_interpolate(c) ==
    /\ pc[c] = "interpolate"
    /\ LET tex == textures(meshes_world[c])
           a == interp_args(fragments[c], faces_verts_uvs(tex))
           r == interpolate_face_attributes(a.pix_to_face, a.bary_coords, a.face_attributes)
           e == [callee |-> "interpolator", pix_to_face |-> a.pix_to_face,
                 bary_coords |-> a.bary_coords, face_attributes |-> a.face_attributes]
       IN  /\ trace' = [trace EXCEPT ![c] =
                          Append(@, IF r.outcome = "return" THEN returned(e, r.value)
                                                            ELSE raised(e, r.error))]
           /\ IF r.outcome = "return"
              THEN /\ result' = [result EXCEPT ![c] = get_view_to_texture_map_return(r.value)]
                   /\ pc' = [pc EXCEPT ![c] = "done"]
              ELSE /\ result' = [result EXCEPT ![c] = raise(r.error)]
                   /\ pc' = [pc EXCEPT ![c] = "raised"]
    /\ UNCHANGED <<method, meshes_world, kwargs, device, fragments,
                   rasterizer_device, shader_device, self_attrs, retargeted, env>>

(***************************************************************************)
(* to of MeshRenderer (lines 39-40) and of MeshRendererWithFragments       *)
(* (lines 99-100).                                                         *)
(***************************************************************************)
\* A caller invokes to(device) while no other call is in flight; its first
\* line runs: self.rasterizer.to(device).  The collaborator moves or raises.
to_line1(c, meth) ==
    /\ c \in slots
    /\ pc[c] = "idle"
    /\ NothingPending
    /\ \E dev \in Devices, ok \in BOOLEAN :
         LET e == [callee |-> "rasterizer.to", device |-> rasterizer_device, target |-> dev]
         IN  /\ method' = [method EXCEPT ![c] = meth]
             /\ device' = [device EXCEPT ![c] = dev]
             /\ trace' = [trace EXCEPT ![c] =
                            <<IF ok THEN returned(e, "None") ELSE raised(e, RasterizerError)>>]
             /\ IF ok
                THEN /\ rasterizer_device' = dev
                     /\ pc' = [pc EXCEPT ![c] = "to_shader"]
                     /\ UNCHANGED result
                ELSE /\ result' = [result EXCEPT ![c] = raise(RasterizerError)]
                     /\ pc' = [pc EXCEPT ![c] = "raised"]
                     /\ UNCHANGED rasterizer_device
    /\ retargeted' = "-"
    /\ UNCHANGED <<meshes_world, kwargs, fragments, shader_device, self_attrs, env>>

\* The second line is missing: the shader is left where it was.
to_line2_skipped(c, meth) ==
    /\ pc[c] = "to_shader"
    /\ method[c] = meth
    /\ result' = [result EXCEPT ![c] = return("None")]
    /\ pc' = [pc EXCEPT ![c] = "done"]
    /\ retargeted' = device[c]
    /\ UNCHANGED <<method, meshes_world, kwargs, device, fragments, trace,
                   rasterizer_device, shader_device, self_attrs, env>>

\* self.shader.to(device), then the method returns None.
to_line2(c, meth) ==
    /\ pc[c] = "to_shader"
    /\ method[c] = meth
    /\ \E ok \in BOOLEAN :
         LET e == [callee |-> "shader.to", device |-> shader_device, target |-> device[c]]
         IN  /\ trace' = [trace EXCEPT ![c] =
                            Append(@, IF ok THEN returned(e, "None") ELSE raised(e, ShaderError))]
             /\ IF ok
                THEN /\ shader_device' = device[c]
                     /\ result' = [result EXCEPT ![c] = return("None")]
                     /\ pc' = [pc EXCEPT ![c] = "done"]
                     /\ retargeted' = device[c]
                ELSE /\ result' = [result EXCEPT ![c] = raise(ShaderError)]
                     /\ pc' = [pc EXCEPT ![c] = "raised"]
                     /\ UNCHANGED <<shader_device, retargeted>>
    /\ UNCHANGED <<method, meshes_world, kwargs, device, fragments,
                   rasterizer_device, self_attrs, env>>

to_rasterizer(c) == to_line1(c, "MeshRenderer.to")

to_shader(c) == to_line2(c, "MeshRenderer.to")

wf_to_rasterizer(c) == to_line1(c, "MeshRendererWithFragments.to")

wf_to_shader(c) == to_line2(c, "MeshRendererWithFragments.to")

(***************************************************************************)
(* The caller takes the outcome of a finished call; its locals are gone.   *)
(***************************************************************************)
Release(c) ==
    /\ pc[c] \in {"done", "raised"}
    /\ pc' = [pc EXCEPT ![c] = "idle"]
    /\ method' = [method EXCEPT ![c] = "-"]
    /\ meshes_world' = [meshes_world EXCEPT ![c] = "-"]
    /\ kwargs' = [kwargs EXCEPT ![c] = "-"]
    /\ device' = [device EXCEPT ![c] = "-"]
    /\ fragments' = [fragments EXCEPT ![c] = NoFragments]
    /\ result' = [result EXCEPT ![c] = NoResult]
    /\ trace' = [trace EXCEPT ![c] = << >>]
    /\ UNCHANGED <<rasterizer_device, shader_device, self_attrs, retargeted, env>>

Next ==
    \E c \in Calls :
        \/ forward_rasterize(c)
        \/ forward_shade(c)
        \/ wf_forward_rasterize(c)
        \/ wf_forward_shade(c)
        \/ get_view_to_texture_map_rasterize(c)
        \/ get_view_to_texture_map_interpolate(c)
        \/ to_rasterizer(c)
        \/ to_shader(c)
        \/ wf_to_rasterizer(c)
        \/ wf_to_shader(c)
        \/ Release(c)

Spec == Init /\ [][Next]_vars

SpecSeq == InitSeq /\ [][Next]_vars

(***************************************************************************)
(* Properties.                                                             *)
(***************************************************************************)
Forward == "MeshRenderer.forward"
WfForward == "MeshRendererWithFragments.forward"
TextureMap == "MeshRenderer.get_view_to_texture_map"

\* The positions of call c's invocations of callee.
Invocations(c, callee) == {i \in 1..Len(trace[c]) : trace[c][i].callee = callee}

\* Call c invoked the rasterizer once, first, with the caller's arguments.
RasterizedOnce(c) ==
    /\ Invocations(c, "rasterizer") = {1}
    /\ trace[c][1].meshes = meshes_world[c]
    /\ trace[c][1].kwargs = kwargs[c]

\* Call c's second invocation is the shader, once, with the fragments object
\* its rasterizer invocation returned and the caller's arguments.
ShadedOnce(c) ==
    /\ Invocations(c, "shader") = {2}
    /\ trace[c][1].outcome = "return"
    /\ trace[c][2].fragments = trace[c][1].value
    /\ trace[c][2].meshes = meshes_world[c]
    /\ trace[c][2].kwargs = kwargs[c]

\* C1: a call of MeshRenderer.forward invokes the rasterizer exactly once and
\* then the shader exactly once, both with the caller's meshes and options;
\* the shader receives the fragments this rasterizer invocation returned, and
\* the call returns the shader's output unchanged.
C1_RenderSequence ==
    \A c \in Calls :
        method[c] = Forward =>
            /\ RasterizedOnce(c)
            /\ Invocations(c, "interpolator") = {}
            /\ pc[c] = "forward_shade" => Len(trace[c]) = 1 /\ trace[c][1].outcome = "return"
            /\ pc[c] = "done" =>
                /\ Len(trace[c]) = 2
                /\ ShadedOnce(c)
                /\ trace[c][2].outcome = "return"
                /\ result[c] = return(trace[c][2].value)

C1_Witness ==
    \E c \in Calls : method[c] = Forward /\ pc[c] = "done" /\ kwargs[c] = "on"

\* An invocation without the identity of the fragments objects in it.
Anonymous(e) ==
    IF e.callee = "rasterizer" /\ e.outcome = "return"
    THEN [e EXCEPT !.value = @.val]
    ELSE IF e.callee = "shader" THEN [e EXCEPT !.fragments = @.val] ELSE e

AnonymousTrace(c) == [i \in 1..Len(trace[c]) |-> Anonymous(trace[c][i])]

\* C2: for the same meshes and options, the image MeshRenderer.forward
\* returns equals the first value MeshRendererWithFragments.forward returns,
\* and both make the same sequence of collaborator invocations.
C2_RenderEqualsWithFragments ==
    \A c, d \in Calls :
        ( /\ method[c] = Forward /\ pc[c] = "done"
          /\ method[d] = WfForward /\ pc[d] = "done"
          /\ meshes_world[c] = meshes_world[d]
          /\ kwargs[c] = kwargs[d] ) =>
            /\ result[c].value = result[d].value[1]
            /\ AnonymousTrace(c) = AnonymousTrace(d)

C2_Witness ==
    \E c, d \in Calls :
        /\ method[c] = Forward /\ pc[c] = "done"
        /\ method[d] = WfForward /\ pc[d] = "done"
        /\ meshes_world[c] = "A" /\ meshes_world[d] = "A"
        /\ kwargs[c] = "on" /\ kwargs[d] = "on"

\* C3: the second value MeshRendererWithFragments.forward returns is the
\* fragments object its one rasterizer invocation returned, with the value
\* the rasterizer gave it, and it is the object the shader was passed.
C3_ReturnedFragments ==
    \A c \in Calls :
        (method[c] = WfForward /\ pc[c] = "done") =>
            /\ Invocations(c, "rasterizer") = {1}
            /\ trace[c][1].outcome = "return"
            /\ result[c].kind = "return"
            /\ result[c].value[2] = trace[c][1].value
            /\ result[c].value[2] = trace[c][2].fragments
            /\ trace[c][2].callee = "shader"

C3_Witness ==
    \E c \in Calls :
        /\ method[c] = WfForward /\ pc[c] = "done"
        /\ result[c].value[2].val.zbuf = RawFragments("A").zbuf

\* The number of faces of the meshes before mesh n (1-based) of batch m.
FacesBefore(m, n) == SumLen(SubSeq(faces_uvs_list(m), 1, n - 1))

\* Entry q (0-based) of face_attributes is the UV triple of mesh n's own
\* vertex UVs at the UV indices of its face f (0-based).
IsOwnFace(face_attributes, m, n, f, q) ==
    /\ q < Len(face_attributes)
    /\ \A k \in 1..3 :
          At0(face_attributes, q)[k] =
              At0(verts_uvs_list(m)[n], At0(faces_uvs_list(m)[n], f)[k])

\* face_attributes is the packed per-face UV attribute of batch m.
IsPacked(face_attributes, m) ==
    /\ Len(face_attributes) = SumLen(faces_uvs_list(m))
    /\ \A n \in 1..Len(faces_uvs_list(m)) :
          \A f \in 0..(Len(faces_uvs_list(m)[n]) - 1) :
              IsOwnFace(face_attributes, m, n, f, FacesBefore(m, n) + f)

\* C4: a call of get_view_to_texture_map invokes the rasterizer exactly once,
\* never the shader, and then the interpolator exactly once with the
\* pix_to_face and bary_coords of the fragments this rasterizer invocation
\* returned and the packed per-face UVs of the caller's meshes; it returns
\* the interpolator's output unchanged.
C4_TextureMapSequence ==
    \A c \in Calls :
        method[c] = TextureMap =>
            /\ RasterizedOnce(c)
            /\ Invocations(c, "shader") = {}
            /\ pc[c] = "interpolate" => Len(trace[c]) = 1 /\ trace[c][1].outcome = "return"
            /\ (pc[c] \in {"done", "raised"} /\ trace[c][1].outcome = "return") =>
                /\ Len(trace[c]) = 2
                /\ trace[c][2].callee = "interpolator"
                /\ trace[c][2].pix_to_face = trace[c][1].value.val.pix_to_face
                /\ trace[c][2].bary_coords = trace[c][1].value.val.bary_coords
                /\ IsPacked(trace[c][2].face_attributes, meshes_world[c])
            /\ pc[c] = "done" =>
                /\ trace[c][2].outcome = "return"
                /\ result[c] = return(trace[c][2].value)

C4_Witness ==
    \E c \in Calls :
        /\ method[c] = TextureMap /\ pc[c] = "done"
        /\ Len(result[c].value) = Len(RawFragments("A").pix_to_face)

\* C5: in get_view_to_texture_map the packed per-face UV attribute handed to
\* the interpolator has one entry per face of the batch, and the entry at
\* (faces of the meshes before mesh i) + f is the triple of mesh i's own
\* vertex UVs selected by mesh i's face-f UV indices.
C5_PackingInvariant ==
    \A c \in Calls :
        \A i \in Invocations(c, "interpolator") :
            IsPacked(trace[c][i].face_attributes, meshes_world[c])

\* Batch A (3 and 5 faces): 8 entries, entry 3 is mesh 1's face 0.
C5_Witness ==
    \E c \in Calls :
        /\ method[c] = TextureMap /\ meshes_world[c] = "A"
        /\ Len(trace[c]) = 2
        /\ Len(trace[c][2].face_attributes) = 8
        /\ At0(trace[c][2].face_attributes, 3) = << <<20, 20>>, <<30, 20>>, <<20, 30>> >>

RenderMethods == {Forward, WfForward, TextureMap}

\* C6: to forwards the same target to the rasterizer and to the shader; once
\* the last to call has returned, both collaborators are on its target, and
\* so are the collaborators every later rendering call invokes.
C6_Retarget ==
    /\ \A c \in Calls :
          (method[c] \in ToMethods /\ pc[c] = "done") =>
              /\ Len(trace[c]) = 2
              /\ trace[c][1].callee = "rasterizer.to" /\ trace[c][1].target = device[c]
              /\ trace[c][2].callee = "shader.to" /\ trace[c][2].target = device[c]
              /\ retargeted = device[c]
    /\ retargeted # "-" =>
          /\ rasterizer_device = retargeted
          /\ shader_device = retargeted
          /\ \A c \in Calls :
                method[c] \in RenderMethods =>
                    \A i \in Invocations(c, "rasterizer") \cup Invocations(c, "shader") :
                        trace[c][i].device = retargeted

C6_Witness ==
    \E c \in Calls :
        /\ method[c] = Forward /\ pc[c] = "done"
        /\ retargeted = "cuda:0"
        /\ trace[c][2].device = "cuda:0"

\* C7: in the three rendering methods an error raised by the rasterizer or
\* the shader ends the call with that very error as its outcome: the failed
\* collaborator is invoked once, nothing is invoked after it, no value is
\* returned; a call ends raised only if its last invocation raised.
C7_ErrorPropagation ==
    \A c \in Calls :
        method[c] \in RenderMethods =>
            /\ \A i \in 1..Len(trace[c]) :
                  trace[c][i].outcome = "raise" =>
                      /\ i = Len(trace[c])
                      /\ pc[c] = "raised"
                      /\ result[c] = [kind |-> "raise", error |-> trace[c][i].error]
            /\ \A callee \in {"rasterizer", "shader", "interpolator"} :
                  Cardinality(Invocations(c, callee)) <= 1
            /\ pc[c] = "raised" => trace[c][Len(trace[c])].outcome = "raise"
            /\ pc[c] = "done" => result[c].kind = "return"

C7_Witness ==
    \E c, d \in Calls :
        /\ method[c] = TextureMap /\ pc[c] = "raised"
        /\ result[c].error = RasterizerError /\ Len(trace[c]) = 1
        /\ method[d] = WfForward /\ pc[d] = "raised"
        /\ result[d].error = ShaderError /\ Len(trace[d]) = 2

\* The UV triple of packed face q (0-based) of batch m: the face of the mesh
\* whose range of packed faces holds q.
OwnFaceUVs(m, q) ==
    LET n == CHOOSE n \in 1..Len(faces_uvs_list(m)) :
                 /\ FacesBefore(m, n) <= q
                 /\ q < FacesBefore(m, n) + Len(faces_uvs_list(m)[n])
        face == At0(faces_uvs_list(m)[n], q - FacesBefore(m, n))
    IN  [k \in 1..3 |-> At0(verts_uvs_list(m)[n], face[k])]

\* The pixel slots of a fragments value that a face of batch m covers.
Covered(val, m) ==
    {p \in 1..Len(val.pix_to_face) :
        val.pix_to_face[p] >= 0 /\ val.pix_to_face[p] < SumLen(faces_uvs_list(m))}

OutOfRange(b) == \E k \in 1..3 : b.w[k] < 0 \/ b.w[k] > b.den

\* Some slot with a face holds a weight outside [0, 1].
HasOutOfRange(val) ==
    \E p \in 1..Len(val.pix_to_face) :
        val.pix_to_face[p] >= 0 /\ OutOfRange(val.bary_coords[p])

\* v is the combination of the triple uvs with exactly the weights b.
IsWeightedSum(v, b, uvs) ==
    /\ v.den = b.den
    /\ \A k \in 1..2 :
          v.num[k] = b.w[1] * uvs[1][k] + b.w[2] * uvs[2][k] + b.w[3] * uvs[3][k]

Cross(o, a, b) == (a[1] - o[1]) * (b[2] - o[2]) - (a[2] - o[2]) * (b[1] - o[1])

\* v.num / v.den lies in the convex hull of the three points uvs: on one side
\* of (or on) all three edges, and inside the bounding box.
InHull(v, uvs) ==
    LET t == [j \in 1..3 |-> <<v.den * uvs[j][1], v.den * uvs[j][2]>>]
        d == <<Cross(t[1], t[2], v.num), Cross(t[2], t[3], v.num), Cross(t[3], t[1], v.num)>>
    IN  /\ v.den > 0
        /\ ~((\E j \in 1..3 : d[j] < 0) /\ (\E j \in 1..3 : d[j] > 0))
        /\ \A k \in 1..2 :
              /\ \E j \in 1..3 : t[j][k] <= v.num[k]
              /\ \E j \in 1..3 : t[j][k] >= v.num[k]

\* A finished get_view_to_texture_map call whose fragments hold a weight
\* outside [0, 1] for a slot with a face, the flag never having been set.
UnclippedCase(c) ==
    /\ method[c] = TextureMap
    /\ pc[c] \in {"done", "raised"}
    /\ kwargs[c] = "unset"
    /\ trace[c][1].outcome = "return"
    /\ HasOutOfRange(trace[c][1].value.val)

\* C8 as stated: with a weight outside [0, 1] and the flag never set, the
\* call fails with a configuration error and returns nothing.
C8_LoudFailure ==
    \A c \in Calls :
        UnclippedCase(c) =>
            pc[c] = "raised" /\ result[c] = [kind |-> "raise", error |-> ConfigurationError]

\* C8 amended: in that case the call raises no configuration error; it fails
\* only on a face index outside the packed faces, and otherwise returns, for
\* every slot with a face, the weighted sum with the weights of the fragments
\* as they are, unclipped.
C8_PassThrough ==
    \A c \in Calls :
        UnclippedCase(c) =>
            LET val == trace[c][1].value.val
                m == meshes_world[c]
            IN  /\ pc[c] = "raised" =>
                    /\ result[c] = [kind |-> "raise", error |-> IndexError]
                    /\ \E p \in 1..Len(val.pix_to_face) :
                          val.pix_to_face[p] >= SumLen(faces_uvs_list(m))
                /\ pc[c] = "done" =>
                    /\ result[c].kind = "return"
                    /\ Len(result[c].value) = Len(val.pix_to_face)
                    /\ \A p \in Covered(val, m) :
                          IsWeightedSum(result[c].value[p], val.bary_coords[p],
                                        OwnFaceUVs(m, val.pix_to_face[p]))

\* The slot with weights (1.2, -0.3, 0.1) comes back extrapolated.
C8_Witness ==
    \E c \in Calls :
        /\ UnclippedCase(c) /\ pc[c] = "done" /\ meshes_world[c] = "A"
        /\ trace[c][1].value.val.bary_coords[2].w = <<12, -3, 1>>
        /\ ~InHull(result[c].value[2], OwnFaceUVs("A", 3))

\* The triple b is the triple raw clamped into [0, 1] and renormalized.
IsClipOf(b, raw) ==
    LET cl == [k \in 1..3 |-> Clamp(raw.w[k], 0, raw.den)]
    IN  /\ \A k \in 1..3 : b.w[k] >= 0 /\ b.w[k] <= b.den
        /\ b.w[1] + b.w[2] + b.w[3] = b.den
        /\ \A k \in 1..3 : b.w[k] * (cl[1] + cl[2] + cl[3]) = cl[k] * b.den

Alone(c, meth, m, kw) ==
    LET frag == [id |-> <<c, 1>>, val |-> Rasterize(m, kw)]
        images == Shade(frag.val, m, kw)
    IN  CASE meth = Forward -> return(images)
          [] meth = WfForward -> return(<<images, frag>>)
          [] meth = TextureMap ->
                return(interpolate_face_attributes(frag.val.pix_to_face, frag.val.bary_coords,
                                                   faces_verts_uvs(textures(m))).value)

\* C10: under any interleaving of rendering calls, the fragments a call holds,
\* hands to the shader or to the interpolator, or returns, are those its own
\* rasterizer invocation created from its own meshes; the pipeline objects
\* keep only their two collaborators; a call returns what it returns alone.
C10_Independence ==
    /\ self_attrs = [p \in Pipelines |-> init_attrs]
    /\ \A c \in Calls :
          (method[c] \in RenderMethods /\ trace[c][1].outcome = "return") =>
              LET own == trace[c][1].value
              IN  /\ own.id[1] = c
                  /\ own.val = Rasterize(meshes_world[c], kwargs[c])
                  /\ \A d \in Calls :
                        (d # c /\ method[d] \in RenderMethods
                               /\ trace[d][1].outcome = "return") =>
                            trace[d][1].value.id # own.id
                  /\ InFlight(c) => fragments[c] = own
                  /\ \A i \in Invocations(c, "shader") : trace[c][i].fragments = own
                  /\ \A i \in Invocations(c, "interpolator") :
                        /\ trace[c][i].pix_to_face = own.val.pix_to_face
                        /\ trace[c][i].bary_coords = own.val.bary_coords
                  /\ pc[c] = "done" =>
                        result[c] = Alone(c, method[c], meshes_world[c], kwargs[c])

\* Two calls on different meshes overlap: one finished while the other was
\* between its rasterizer and its shader invocation.
C10_Witness ==
    \E c, d \in Calls :
        /\ c # d
        /\ method[c] = WfForward /\ pc[c] = "wf_forward_shade"
        /\ method[d] = TextureMap /\ pc[d] = "done"
        /\ meshes_world[c] # meshes_world[d]

====
